---- MODULE Spec2Model ----
(***************************************************************************)
(* cmmt (src/main.py): one run of main() without --init.  The run loads    *)
(* the configuration, queries git status and the staged diff, builds the   *)
(* prompt, asks for confirmation, calls the generation backend, parses its *)
(* answer, asks again and runs git commit / git checkout -b / git push.    *)
(*                                                                         *)
(* Python values are records [k, v]: k is the Python type ("none", "str",  *)
(* "num"), v the text of the value.  A text the backend returns is a       *)
(* sequence of lexemes: white space, the opening and closing fence markers,   *)
(* prose, and one JSON document.                                           *)
(***************************************************************************)
EXTENDS Naturals, Sequences, FiniteSets, TLC

\* longest run of white space / fence lexemes before and after the body of a
\* backend answer
MaxWrap == 1

\* longest run of white space / fence lexemes on each side of the body of a
\* text handed to parse_response alone
MaxFence == 2

(***************************************************************************)
(* Python values                                                           *)
(***************************************************************************)
None == [k |-> "none", v |-> ""]
Str(s) == [k |-> "str", v |-> s]
Num(s) == [k |-> "num", v |-> s]
\* a key that a JSON object does not have
Absent == [k |-> "absent", v |-> ""]

IsStr(x) == x.k = "str"

\* Python truth value: if x / x or y / not x
Truthy(x) ==
  CASE x.k = "str" -> x.v /= ""
    [] x.k = "num" -> x.v /= "0"
    [] OTHER -> FALSE

\* str.lower() on the answers a user can type
Lower(s) ==
  CASE s = "Y" -> "y"
    [] s = "N" -> "n"
    [] s = "YES" -> "yes"
    [] OTHER -> s

(***************************************************************************)
(* Texts returned by the backend                                           *)
(***************************************************************************)
\* a JSON document: an object with (possibly absent) keys commit_message and
\* branch_name, or a value that is not an object (array, number, string, null)
Obj(cm, bn) == [t |-> "obj", cm |-> cm, bn |-> bn]
NotObj == [t |-> "other", cm |-> Absent, bn |-> Absent]
NoDoc == [t |-> "none", cm |-> Absent, bn |-> Absent]

WS == [k |-> "ws", doc |-> NoDoc]
FenceJson == [k |-> "fence_json", doc |-> NoDoc]
Fence == [k |-> "fence", doc |-> NoDoc]
Prose == [k |-> "prose", doc |-> NoDoc]
Json(d) == [k |-> "json", doc |-> d]

\* values a backend can put under commit_message and under branch_name
CommitValues == {Absent, None, Str(""), Str("fix(parser): handle empty input"),
                 Str("feat: add x"), Num("5")}
BranchValues == {Absent, None, Str(""), Str("fix/empty-input"), Num("0"), Num("5")}

Docs == {Obj(cm, bn) : cm \in CommitValues, bn \in BranchValues} \cup {NotObj}
Bodies == {Json(d) : d \in Docs} \cup {Prose}
Wrappers == {WS, FenceJson, Fence}

SeqsUpTo(S, n) == UNION {[1..m -> S] : m \in 0..n}

\* the texts a backend answers with: a body, wrapped or bare, or nothing at all
Contents ==
  {pre \o <<b>> \o post : pre \in SeqsUpTo(Wrappers, MaxWrap), b \in Bodies,
                          post \in SeqsUpTo(Wrappers, MaxWrap)}
  \cup SeqsUpTo(Wrappers, MaxWrap)

\* the texts parse_response is applied to on its own, not yet stripped
ParseTexts ==
  {pre \o <<b>> \o post : pre \in SeqsUpTo(Wrappers, MaxFence), b \in Bodies,
                          post \in SeqsUpTo(Wrappers, MaxFence)}

RECURSIVE LStrip(_)
LStrip(s) == IF s /= <<>> /\ Head(s) = WS THEN LStrip(Tail(s)) ELSE s

RECURSIVE RStrip(_)
RStrip(s) ==
  IF s /= <<>> /\ s[Len(s)] = WS THEN RStrip(SubSeq(s, 1, Len(s) - 1)) ELSE s

\* str.strip()
Strip(s) == RStrip(LStrip(s))

\* DropFenceJson with the opening fence left in place
DropFenceJson_Keep(s) == s

\* result.startswith(<fence>json) / result[7:]: three backquotes and json
DropFenceJson(s) == IF s /= <<>> /\ Head(s) = FenceJson THEN Tail(s) ELSE s

\* DropFence with the closing fence left in place
DropFence_Keep(s) == s

\* result.endswith(<fence>) / result[:-3]: three backquotes
DropFence(s) ==
  IF s /= <<>> /\ s[Len(s)] = Fence THEN SubSeq(s, 1, Len(s) - 1) ELSE s

\* what call_openai returns on success: message.content.strip()
Results == {Strip(c) : c \in Contents}

\* lines 155-160 of parse_response
Normalize(s) == Strip(DropFence(DropFenceJson(Strip(s))))

\* json.loads succeeds on a text that is one JSON document and nothing else
Decodes(s) == Len(s) = 1 /\ s[1].k = "json"


(***************************************************************************)
(* Pure functions of the program                                           *)
(***************************************************************************)
\* build_prompt with the run's extra information put before the
\* configuration's
build_prompt_RunFirst(st, df, a, c) ==
  <<"task">>
  \o (IF a.branch THEN <<"task_branch_name">> ELSE <<>>)
  \o <<"commit_message_specification">>
  \o (IF a.branch THEN <<"branch_name_specification">> ELSE <<>>)
  \o <<"important", IF a.branch THEN "format_commit_message_branch_name"
                    ELSE "format_commit_message">>
  \o (IF Truthy(a.extra_info) \/ Truthy(c.extra_info)
      THEN <<"extra_information">>
           \o (IF Truthy(a.extra_info) THEN <<a.extra_info.v>> ELSE <<>>)
           \o (IF Truthy(c.extra_info) THEN <<c.extra_info.v>> ELSE <<>>)
      ELSE <<>>)
  \o <<"context", st.v, df.v>>

\* build_prompt: the prompt as the sequence of its blocks
build_prompt(st, df, a, c) ==
  <<"task">>
  \o (IF a.branch THEN <<"task_branch_name">> ELSE <<>>)
  \o <<"commit_message_specification">>
  \o (IF a.branch THEN <<"branch_name_specification">> ELSE <<>>)
  \o <<"important", IF a.branch THEN "format_commit_message_branch_name"
                    ELSE "format_commit_message">>
  \o (IF Truthy(a.extra_info) \/ Truthy(c.extra_info)
      THEN <<"extra_information">>
           \o (IF Truthy(c.extra_info) THEN <<c.extra_info.v>> ELSE <<>>)
           \o (IF Truthy(a.extra_info) THEN <<a.extra_info.v>> ELSE <<>>)
      ELSE <<>>)
  \o <<"context", st.v, df.v>>

\* BranchOf reading branch_name whether or not a branch was asked for
BranchOf_Always(doc, branch) == IF doc.bn = Absent THEN None ELSE doc.bn

\* data.get("branch_name") if args.branch else None
BranchOf(doc, branch) ==
  IF branch THEN (IF doc.bn = Absent THEN None ELSE doc.bn) ELSE None

\* parse_response: "ok" returns (commit_msg, branch_name), "decode_error"
\* is the caught JSONDecodeError returning (None, None), "raised" is the
\* KeyError / TypeError of data["commit_message"] that nothing catches
parse_response(text, a) ==
  LET norm == Normalize(text) IN
  IF ~Decodes(norm)
  THEN [outcome |-> "decode_error", commit_msg |-> None, branch_name |-> None]
  ELSE LET doc == norm[1].doc IN
       IF doc.t /= "obj" \/ doc.cm = Absent
       THEN [outcome |-> "raised", commit_msg |-> None, branch_name |-> None]
       ELSE [outcome |-> "ok", commit_msg |-> doc.cm,
             branch_name |-> BranchOf(doc, a.branch)]

\* Confirmed taking every answer for a yes
Confirmed_Anything(answer) == TRUE

\* DiffResult handing the failure on as get_git_status does
DiffResult_Propagate(ok, out) == IF ok THEN out ELSE None

\* get_git_diff: the output of git diff --staged, "" when it fails
DiffResult(ok, out) == IF ok THEN out ELSE Str("")

\* the confirmation test of both gates: confirm.lower() != "y" returns
Confirmed(answer) == Lower(answer) = "y"

\* AfterStatus going on after a failed status query
AfterStatus_Continue(st) == "diff"

\* main after get_git_status: None ends the run
AfterStatus(st) == IF st = None THEN "exited" ELSE "diff"

\* AfterGenerate going on to the parser after a failed call
AfterGenerate_Continue(res) == "parse"

\* main after call_openai: None ends the run
AfterGenerate(res) == IF ~res.ok THEN "exited" ELSE "parse"

\* AfterCommit trying the commit again after a failure
AfterCommit_Retry(ok, bn, push) ==
  IF ~ok THEN "commit"
  ELSE IF Truthy(bn) THEN "checkout"
  ELSE IF push THEN "push" ELSE "exited"

\* AfterCommit without the return on a failed commit
AfterCommit_NoShortCircuit(ok, bn, push) ==
  IF Truthy(bn) THEN "checkout" ELSE IF push THEN "push" ELSE "exited"

\* AfterParse asking at the second gate even with --yes
AfterParse_AlwaysAsk(yes) == "gate2"

\* main after the plan is printed: the second gate unless args.yes
AfterParse(yes) == IF yes THEN "commit" ELSE "gate2"

\* execute_git_commands after git commit
AfterCommit(ok, bn, push) ==
  IF ~ok THEN "exited"
  ELSE IF Truthy(bn) THEN "checkout"
  ELSE IF push THEN "push" ELSE "exited"

\* AfterCheckout without the return on a failed checkout
AfterCheckout_NoShortCircuit(ok, push) == IF push THEN "push" ELSE "exited"

\* execute_git_commands after git checkout -b
AfterCheckout(ok, push) ==
  IF ~ok THEN "exited" ELSE IF push THEN "push" ELSE "exited"

\* PushTarget that always pushes the fallback name
PushTarget_Main(bn) == Str("main")

\* branch_name or "main"
PushTarget(bn) == IF Truthy(bn) THEN bn ELSE Str("main")

(***************************************************************************)
(* State                                                                   *)
(***************************************************************************)
VARIABLES
  args,         \* the parsed command line
  config,       \* the loaded configuration
  pc,           \* position of the run in main / execute_git_commands
  status,       \* main's status
  diff,         \* main's diff
  prompt,       \* main's prompt
  result,       \* main's result: what call_openai returned
  commit_msg,   \* main's commit_msg
  branch_name,  \* main's branch_name
  exec_ret,     \* what execute_git_commands returned
  trace,        \* the calls made so far, in order; an input is recorded
                \* as the gate reads it, in lower case
  err,          \* the diagnostic printed last, "" when none
  exit_status   \* the exit status of the process once pc = "exited"

vars == <<args, config, pc, status, diff, prompt, result, commit_msg,
          branch_name, exec_ret, trace, err, exit_status>>

Answers == {"y", "Y", "n", "yes"}

Event(op, arg, ok) == [op |-> op, arg |-> arg, ok |-> ok]

NoResult == [ok |-> FALSE, text |-> <<>>]

\* a run of main; the extra information of the command line and of the
\* configuration and the file to write the prompt to reach lines 254-260
\* alone and are varied in InitPrompt
Init ==
  /\ args \in [yes : BOOLEAN, branch : BOOLEAN, push : BOOLEAN,
               extra_info : {None},
               output : {Str("prompt.txt")}]
  /\ config \in [openai_api_key : {None, Str(""), Str("sk-key")},
                 extra_info : {Str("")}]
  /\ pc = "config"
  /\ status = None
  /\ diff = None
  /\ prompt = <<>>
  /\ result = NoResult
  /\ commit_msg = None
  /\ branch_name = None
  /\ exec_ret = "not called"
  /\ trace = <<>>
  /\ err = ""
  /\ exit_status = 0

\* build_prompt alone, on every combination of its inputs
InitPrompt ==
  /\ args \in [yes : BOOLEAN, branch : BOOLEAN, push : BOOLEAN,
               extra_info : {None, Str(""), Str("run info")},
               output : {None, Str("prompt.txt")}]
  /\ config \in [openai_api_key : {Str("sk-key")},
                 extra_info : {None, Str(""), Str("cfg info")}]
  /\ pc = "prompt"
  /\ status \in {Str(""), Str(" M a.py")}
  /\ diff \in {Str(""), Str("patch")}
  /\ prompt = <<>>
  /\ result = NoResult
  /\ commit_msg = None
  /\ branch_name = None
  /\ exec_ret = "not called"
  /\ trace = <<>>
  /\ err = ""
  /\ exit_status = 0

\* parse_response alone, on every text and both values of args.branch
InitParse ==
  /\ args \in [yes : {TRUE}, branch : BOOLEAN, push : {FALSE},
               extra_info : {None}, output : {None}]
  /\ config \in [openai_api_key : {Str("sk-key")}, extra_info : {Str("")}]
  /\ pc = "parse"
  /\ status = Str(" M a.py")
  /\ diff = Str("")
  /\ prompt = <<>>
  /\ result \in [ok : {TRUE}, text : ParseTexts]
  /\ commit_msg = None
  /\ branch_name = None
  /\ exec_ret = "not called"
  /\ trace = <<>>
  /\ err = ""
  /\ exit_status = 0

\* main returns (exit status 0) after printing diagnostic d
Return(d) == pc' = "exited" /\ err' = d /\ exit_status' = 0

\* an exception nothing catches: traceback, exit status 1
Raise(d) == pc' = "exited" /\ err' = d /\ exit_status' = 1

\* the step to p, or the return of main when p is "exited"
Goto(p, d) ==
  IF p = "exited" THEN Return(d) ELSE pc' = p /\ UNCHANGED <<err, exit_status>>

\* LoadConfig without the test of the API key
LoadConfig_NoKeyCheck ==
  /\ pc = "config"
  /\ Goto("status", "")
  /\ UNCHANGED <<args, config, status, diff, prompt, result, commit_msg,
                 branch_name, exec_ret, trace>>

\* lines 235-245
LoadConfig ==
  /\ pc = "config"
  /\ IF ~Truthy(config.openai_api_key)
     THEN Return("API key not found")
     ELSE Goto("status", "")
  /\ UNCHANGED <<args, config, status, diff, prompt, result, commit_msg,
                 branch_name, exec_ret, trace>>

\* get_git_status and lines 248-250
GetStatus ==
  /\ pc = "status"
  /\ \E ok \in BOOLEAN :
       /\ status' = IF ok THEN Str(" M a.py") ELSE None
       /\ trace' = Append(trace, Event("status", status', ok))
       /\ Goto(AfterStatus(status'), "git status failed")
  /\ UNCHANGED <<args, config, diff, prompt, result, commit_msg, branch_name,
                 exec_ret>>

\* get_git_diff and line 251
GetDiff ==
  /\ pc = "diff"
  /\ \E ok \in BOOLEAN, out \in {Str(""), Str("patch")} :
       /\ diff' = DiffResult(ok, out)
       /\ ~ok => out = Str("")
       /\ trace' = Append(trace, Event("diff", diff', ok))
  /\ pc' = "prompt"
  /\ UNCHANGED <<args, config, status, prompt, result, commit_msg,
                 branch_name, exec_ret, err, exit_status>>

\* lines 254-276 up to the first gate: build the prompt, write it to
\* args.output, count its tokens; tiktoken raises KeyError for a model it
\* does not know, and the length in characters is printed instead
BuildPrompt ==
  /\ pc = "prompt"
  /\ prompt' = build_prompt(status, diff, args, config)
  /\ \E known \in BOOLEAN :
       trace' = Append(trace, Event("build_prompt", None, TRUE))
                  \o (IF Truthy(args.output)
                      THEN <<Event("write_prompt", args.output, TRUE)>>
                      ELSE <<>>)
                  \o <<Event("count_tokens", None, known)>>
  /\ pc' = IF args.yes THEN "generate" ELSE "gate1"
  /\ UNCHANGED <<args, config, status, diff, result, commit_msg, branch_name,
                 exec_ret, err, exit_status>>

\* lines 273-276
Gate1 ==
  /\ pc = "gate1"
  /\ \E answer \in Answers :
       /\ trace' = Append(trace, Event("input", Str(Lower(answer)), TRUE))
       /\ Goto(IF Confirmed(answer) THEN "generate" ELSE "exited", "")
  /\ UNCHANGED <<args, config, status, diff, prompt, result, commit_msg,
                 branch_name, exec_ret>>

\* call_openai and lines 279-281
CallOpenAI ==
  /\ pc = "generate"
  /\ \/ result' = NoResult
     \/ \E text \in Results : result' = [ok |-> TRUE, text |-> text]
  /\ trace' = Append(trace, Event("generate", None, result'.ok))
  /\ Goto(AfterGenerate(result'), "OpenAI API error")
  /\ UNCHANGED <<args, config, status, diff, prompt, commit_msg, branch_name,
                 exec_ret>>

\* parse_response and lines 284-292
ParseResponse ==
  /\ pc = "parse"
  /\ LET p == parse_response(result.text, args) IN
       /\ trace' = Append(trace, Event("parse", None, p.outcome = "ok"))
       /\ commit_msg' = p.commit_msg
       /\ branch_name' = p.branch_name
       /\ IF p.outcome = "raised" THEN Raise("traceback")
          ELSE IF p.outcome = "decode_error" THEN Return("Failed to parse JSON response")
          ELSE IF commit_msg' = None THEN Return("")
          ELSE Goto(AfterParse(args.yes), "")
  /\ UNCHANGED <<args, config, status, diff, prompt, result, exec_ret>>

\* lines 295-298
Gate2 ==
  /\ pc = "gate2"
  /\ \E answer \in Answers :
       /\ trace' = Append(trace, Event("input", Str(Lower(answer)), TRUE))
       /\ Goto(IF Confirmed(answer) THEN "commit" ELSE "exited", "")
  /\ UNCHANGED <<args, config, status, diff, prompt, result, commit_msg,
                 branch_name, exec_ret>>

\* the end of execute_git_commands, whose value main drops (line 301)
Finish(p, ok, d) ==
  /\ Goto(p, IF ok THEN "" ELSE d)
  /\ exec_ret' = IF p /= "exited" THEN exec_ret
                 ELSE IF ok THEN "True" ELSE "False"

\* subprocess.run raises TypeError on an argument that is no string, before
\* any process is started
RaiseTypeError ==
  /\ Raise("traceback")
  /\ exec_ret' = "raised"
  /\ UNCHANGED trace

\* lines 175-180: git commit -m commit_msg
Commit ==
  /\ pc = "commit"
  /\ IF ~IsStr(commit_msg)
     THEN RaiseTypeError
     ELSE \E ok \in BOOLEAN :
            /\ trace' = Append(trace, Event("commit", commit_msg, ok))
            /\ Finish(AfterCommit(ok, branch_name, args.push), ok,
                      "Git commit failed")
  /\ UNCHANGED <<args, config, status, diff, prompt, result, commit_msg,
                 branch_name>>

\* lines 183-189: git checkout -b branch_name
Checkout ==
  /\ pc = "checkout"
  /\ IF ~IsStr(branch_name)
     THEN RaiseTypeError
     ELSE \E ok \in BOOLEAN :
            /\ trace' = Append(trace, Event("checkout", branch_name, ok))
            /\ Finish(AfterCheckout(ok, args.push), ok, "Git checkout failed")
  /\ UNCHANGED <<args, config, status, diff, prompt, result, commit_msg,
                 branch_name>>

\* lines 192-202: git push -u origin (branch_name or "main")
Push ==
  /\ pc = "push"
  /\ \E ok \in BOOLEAN :
       /\ trace' = Append(trace, Event("push", PushTarget(branch_name), ok))
       /\ Finish("exited", ok, "Git push failed")
  /\ UNCHANGED <<args, config, status, diff, prompt, result, commit_msg,
                 branch_name>>

Next ==
  \/ LoadConfig
  \/ GetStatus
  \/ GetDiff
  \/ BuildPrompt
  \/ Gate1
  \/ CallOpenAI
  \/ ParseResponse
  \/ Gate2
  \/ Commit
  \/ Checkout
  \/ Push

Spec == Init /\ [][Next]_vars

NextPrompt == BuildPrompt

SpecPrompt == InitPrompt /\ [][NextPrompt]_vars

NextParse == ParseResponse

SpecParse == InitParse /\ [][NextParse]_vars

(***************************************************************************)
(* Vocabulary of the properties                                            *)
(***************************************************************************)
GitOps == {"commit", "checkout", "push"}

\* the positions of the trace at which op was called
At(op) == {i \in DOMAIN trace : trace[i].op = op}

\* the git commands that were started, in order
GitCmds == SelectSeq(trace, LAMBDA e : e.op \in GitOps)

\* the positions at which the user answered yes / answered anything else
Yes == {i \in At("input") : trace[i].arg.v = "y"}
Declined == At("input") \ Yes

\* place of a git command in the order commit, branch creation, push
Rank(op) == CASE op = "commit" -> 1 [] op = "checkout" -> 2 [] OTHER -> 3

\* the JSON document of a text, if it has one
HasJson(text) == \E i \in DOMAIN text : text[i].k = "json"
JsonOf(text) == text[CHOOSE i \in DOMAIN text : text[i].k = "json"].doc

\* a text without its white space
NoSpace(text) == SelectSeq(text, LAMBDA l : l /= WS)

\* the wire format: one JSON document, bare or between an opening json fence
\* and a closing fence, with white space anywhere around
WireShaped(text) ==
  LET t == NoSpace(text) IN
  \/ Len(t) = 1 /\ t[1].k = "json"
  \/ Len(t) = 3 /\ t[1] = FenceJson /\ t[2].k = "json" /\ t[3] = Fence

NonEmptyStr(x) == x.k = "str" /\ x.v /= ""

\* a response that is a JSON object whose commit_message is a string
WellFormed(text) ==
  /\ WireShaped(text)
  /\ LET doc == JsonOf(text) IN doc.t = "obj" /\ doc.cm.k = "str"

\* a response the parser has to reject: its normalized text does not decode,
\* or is no object, or has no commit_message that is a string
Malformed(text) ==
  LET norm == Normalize(text) IN
  \/ ~Decodes(norm)
  \/ norm[1].doc.t /= "obj"
  \/ norm[1].doc.cm.k /= "str"

\* the user passed both gates, or there were none
GatesPassed == args.yes \/ Cardinality(Yes) = 2

\* the backend answered in the wire format with a non-empty commit_message
ValidResponse ==
  /\ result.ok
  /\ WellFormed(result.text)
  /\ JsonOf(result.text).cm.v /= ""

\* a response that encodes a CommitPlan: the wire format around an object
\* with a non-empty commit_message and, if any, a non-empty branch_name
PlanShaped(text) ==
  /\ WireShaped(text)
  /\ LET doc == JsonOf(text) IN
       /\ doc.t = "obj"
       /\ NonEmptyStr(doc.cm)
       /\ doc.bn = Absent \/ NonEmptyStr(doc.bn)

\* the branch name a response encodes, None when it encodes none
EncodedBranch(text) ==
  LET doc == JsonOf(text) IN IF doc.bn = Absent THEN None ELSE doc.bn

\* the positions of block b in the prompt
Blocks(b) == {i \in DOMAIN prompt : prompt[i] = b}

(***************************************************************************)
(* C1: the executor runs commit, branch creation, push in this order and   *)
(* stops at the first failure: a command is started only after every       *)
(* command before it in the order that the run needed has succeeded, so a  *)
(* failed commit is followed by neither branch creation nor push and a     *)
(* failed branch creation is not followed by push.                         *)
(***************************************************************************)
C1_OrderShortCircuit ==
  LET cmds == GitCmds IN
  /\ \A i, j \in DOMAIN cmds :
       i < j => /\ Rank(cmds[i].op) < Rank(cmds[j].op)
                /\ cmds[i].ok
  /\ \A j \in DOMAIN cmds :
       cmds[j].op /= "commit" => cmds[1].op = "commit"
  /\ \A j \in DOMAIN cmds :
       (cmds[j].op = "push" /\ Truthy(branch_name))
         => \E i \in DOMAIN cmds : i < j /\ cmds[i].op = "checkout"
  /\ (pc \in {"checkout", "push"}) => \A i \in DOMAIN cmds : cmds[i].ok

\* C1 witness: the commit failed in a run that had a branch to create and a
\* push to make, and the run is over
C1_Witness ==
  /\ pc = "exited"
  /\ args.push /\ Truthy(branch_name)
  /\ GitCmds /= <<>> /\ ~GitCmds[1].ok

(***************************************************************************)
(* C2: a response whose normalized text is not well-formed JSON, or has no *)
(* commit_message, or has a commit_message that is no string (Malformed),  *)
(* is rejected by the parser                                               *)
(* (no commit message, no branch name come out of it) and the run ends     *)
(* with no git command started.                                            *)
(***************************************************************************)
C2_MalformedRejected ==
  (At("parse") /= {} /\ Malformed(result.text))
    => /\ commit_msg = None /\ branch_name = None
       /\ pc = "exited"
       /\ GitCmds = <<>>

(***************************************************************************)
(* C3: whenever git commit is started its message is a non-empty string    *)
(* and the branch name of the plan, if there is one, is a non-empty string.*)
(***************************************************************************)
C3_PlanValidated ==
  \A i \in At("commit") :
    /\ NonEmptyStr(trace[i].arg)
    /\ branch_name /= None => NonEmptyStr(branch_name)

(***************************************************************************)
(* C4: without auto-confirm the backend is called only after a yes at the  *)
(* first gate, a git command is started only after a second yes that       *)
(* follows the generation call, and any other answer is the last thing the *)
(* run does: it ends with exit status 0 and without a diagnostic.          *)
(***************************************************************************)
C4_Gates ==
  ~args.yes =>
    LET yes == Yes
        gen == At("generate")
    IN
    /\ \A g \in gen : \E i \in yes : i < g
    /\ \A c \in DOMAIN trace :
         trace[c].op \in GitOps =>
           \E i, k \in yes, g \in gen : i < g /\ g < k /\ k < c
    /\ \A d \in Declined :
         /\ d = Len(trace)
         /\ pc = "exited" /\ exit_status = 0 /\ err = ""
    /\ Cardinality(gen) <= 1

\* C4 witness: the user said yes to the generation and declined the execution
C4_Witness ==
  /\ ~args.yes
  /\ At("generate") /= {}
  /\ Declined /= {}
  /\ commit_msg /= None

(***************************************************************************)
(* C5: the exit status of a finished run is zero exactly when the run went *)
(* through the whole pipeline with every command succeeding or the user    *)
(* declined at a gate; every fatal condition gives a non-zero status.      *)
(***************************************************************************)
C5_ExitStatus ==
  pc = "exited" =>
    (exit_status = 0 <=> (exec_ret = "True" \/ Declined /= {}))

(***************************************************************************)
(* C6: when the status query fails nothing follows it: no diff query, no   *)
(* prompt built or written, no generation call, no git command.            *)
(***************************************************************************)
C6_NotARepositoryHalts ==
  \A i \in At("status") :
    ~trace[i].ok =>
      /\ Len(trace) = i
      /\ \A j \in DOMAIN trace :
           trace[j].op \notin
             {"diff", "build_prompt", "write_prompt", "generate"} \cup GitOps
      /\ prompt = <<>>
      /\ pc = "exited"

\* C6 witness: the status query failed in a run that was asked to write the
\* prompt to a file
C6_Witness ==
  /\ \E i \in At("status") : ~trace[i].ok
  /\ Truthy(args.output)
  /\ pc = "exited"

(***************************************************************************)
(* C7: when the generation call fails the run is over: the call is not     *)
(* made again, the parser does not run and no git command is started.      *)
(***************************************************************************)
C7_BackendErrorTerminates ==
  \A g \in At("generate") :
    ~trace[g].ok =>
      /\ Len(trace) = g
      /\ At("generate") = {g}
      /\ At("parse") = {}
      /\ GitCmds = <<>>
      /\ pc = "exited"

\* C7 witness: the generation call failed
C7_Witness ==
  /\ \E g \in At("generate") : ~trace[g].ok
  /\ pc = "exited"

(***************************************************************************)
(* C8: a push goes to the plan's branch name when the plan has one (a      *)
(* non-empty string) and to main otherwise; after a branch was created the *)
(* push goes to the name of that branch.                                   *)
(***************************************************************************)
C8_PushTarget ==
  \A p \in At("push") :
    /\ trace[p].arg = IF NonEmptyStr(branch_name) THEN branch_name
                      ELSE Str("main")
    /\ \A c \in At("checkout") : trace[p].arg = trace[c].arg
    /\ NonEmptyStr(branch_name) => At("checkout") /= {}

\* C8 witness: a branch was created and then pushed
C8_Witness ==
  /\ At("push") /= {}
  /\ \E c \in At("checkout") : trace[c].ok /\ trace[c].arg = Str("fix/empty-input")

(***************************************************************************)
(* C9: without suggestBranch the plan has no branch name, whatever the     *)
(* response holds under branch_name, and no branch is created.             *)
(***************************************************************************)
C9_NoBranchUnlessAsked ==
  ~args.branch =>
    /\ branch_name = None
    /\ At("checkout") = {}
    /\ pc /= "checkout"

\* C9 witness: the response names a branch, the run did not ask for one and
\* went on to commit
C9_Witness ==
  /\ ~args.branch
  /\ result.ok /\ HasJson(result.text)
  /\ JsonOf(result.text).bn = Str("fix/empty-input")
  /\ At("commit") /= {}

(***************************************************************************)
(* C10: a finished run with suggestBranch and push off, a valid response   *)
(* and every gate passed started exactly one git command: a commit whose   *)
(* message is the commit_message of the response.                          *)
(***************************************************************************)
C10_ExactlyOneCommit ==
  (/\ pc = "exited"
   /\ ~args.branch /\ ~args.push
   /\ ValidResponse
   /\ GatesPassed)
    => LET cmds == GitCmds IN
       /\ Len(cmds) = 1
       /\ cmds[1].op = "commit"
       /\ cmds[1].arg = JsonOf(result.text).cm

\* C10 witness: such a run, with a fenced response, has committed
C10_Witness ==
  /\ pc = "exited"
  /\ ~args.branch /\ ~args.push
  /\ ValidResponse
  /\ GatesPassed
  /\ Head(result.text) = FenceJson
  /\ At("commit") /= {}

(***************************************************************************)
(* C11: a git command that fails after a successful commit is the last     *)
(* thing the run does: the executor returns False and no further command   *)
(* of any kind follows, so nothing undoes the commit or a created branch.  *)
(***************************************************************************)
C11_NoRollback ==
  \A i \in DOMAIN trace :
    (trace[i].op \in {"checkout", "push"} /\ ~trace[i].ok) =>
      /\ \E c \in At("commit") : c < i /\ trace[c].ok
      /\ Len(trace) = i
      /\ pc = "exited"
      /\ exec_ret = "False"

\* C11 witness: the commit succeeded and the branch creation failed in a run
\* that was to push
C11_Witness ==
  /\ \E c \in At("commit") : trace[c].ok
  /\ \E b \in At("checkout") : ~trace[b].ok
  /\ args.push
  /\ pc = "exited"

(***************************************************************************)
(* C12 as stated: parsing a CommitPlan-shaped response, bare or fenced,    *)
(* gives back the commit_message and the branch_name it encodes.           *)
(***************************************************************************)
C12_RoundTrip ==
  (At("parse") /= {} /\ PlanShaped(result.text)) =>
    /\ commit_msg = JsonOf(result.text).cm
    /\ branch_name = EncodedBranch(result.text)

(***************************************************************************)
(* C12 as amended: parsing a CommitPlan-shaped response, bare or fenced,   *)
(* gives back the commit_message it encodes, and the branch_name it        *)
(* encodes when a branch was asked for; when none was asked for the        *)
(* branch name of the plan is None.                                        *)
(***************************************************************************)
C12_RoundTripWanted ==
  (At("parse") /= {} /\ PlanShaped(result.text)) =>
    /\ trace[Len(trace)].ok
    /\ commit_msg = JsonOf(result.text).cm
    /\ branch_name = IF args.branch THEN EncodedBranch(result.text) ELSE None

\* C12 witness: a fenced response with white space around it and a branch
\* name was parsed in a run that asked for a branch
C12_Witness ==
  /\ At("parse") /= {}
  /\ args.branch
  /\ PlanShaped(result.text)
  /\ Head(result.text) = WS /\ result.text[Len(result.text)] = WS
  /\ Len(NoSpace(result.text)) = 3
  /\ branch_name = Str("fix/empty-input")

(***************************************************************************)
(* C13: in a built prompt the branch-name specification block is present   *)
(* exactly when suggestBranch is set; the extra-information block is       *)
(* present exactly when the configuration's or the run's extra information *)
(* is non-empty; when both are non-empty both texts follow the block's     *)
(* header, the configuration's before the run's.                           *)
(***************************************************************************)
C13_PromptInclusion ==
  At("build_prompt") /= {} =>
    /\ Blocks("branch_name_specification") /= {} <=> args.branch
    /\ Blocks("extra_information") /= {}
         <=> (NonEmptyStr(args.extra_info) \/ NonEmptyStr(config.extra_info))
    /\ (NonEmptyStr(args.extra_info) /\ NonEmptyStr(config.extra_info)) =>
         \E h \in Blocks("extra_information"),
            c \in Blocks(config.extra_info.v),
            r \in Blocks(args.extra_info.v) : h < c /\ c < r
    /\ ~NonEmptyStr(args.extra_info) => Blocks("run info") = {}
    /\ ~NonEmptyStr(config.extra_info) => Blocks("cfg info") = {}

\* C13 witness: a prompt built with a branch asked for and both extra
\* informations given
C13_Witness ==
  /\ At("build_prompt") /= {}
  /\ args.branch
  /\ NonEmptyStr(args.extra_info) /\ NonEmptyStr(config.extra_info)

(***************************************************************************)
(* C14: nothing is retried: in a run the status query, the diff query, the *)
(* generation call, git commit, git checkout -b and git push are each      *)
(* called at most once, whatever their outcomes.                           *)
(***************************************************************************)
C14_NoRetry ==
  \A op \in {"status", "diff", "generate", "commit", "checkout", "push"} :
    Cardinality(At(op)) <= 1

\* C14 witness: a run that went through all six calls and ended on a failed
\* push after a failed diff query
C14_Witness ==
  /\ pc = "exited"
  /\ \E d \in At("diff") : ~trace[d].ok
  /\ At("generate") /= {} /\ At("commit") /= {} /\ At("checkout") /= {}
  /\ \E p \in At("push") : ~trace[p].ok

(***************************************************************************)
(* C15: without an API key in the configuration the run ends at once, with *)
(* the hint to run --init: no status or diff query, no generation call and *)
(* no git command is made.                                                 *)
(***************************************************************************)
C15_MissingCredentialFailsFast ==
  ~Truthy(config.openai_api_key) =>
    /\ trace = <<>>
    /\ pc \in {"config", "exited"}
    /\ pc = "exited" => err = "API key not found"

\* C15 witness: a run without an API key has ended
C15_Witness ==
  /\ ~Truthy(config.openai_api_key)
  /\ pc = "exited"

(***************************************************************************)
(* C16: when a branch was asked for and the response has a branch_name     *)
(* that is not a string (beside a commit_message that is a non-empty       *)
(* string), the response is rejected: no git command is                    *)
(* started, and the executor is never left by an exception after the       *)
(* commit.                                                                 *)
(***************************************************************************)
C16_BranchTypeChecked ==
  (/\ args.branch
   /\ At("parse") /= {}
   /\ HasJson(result.text)
   /\ JsonOf(result.text).t = "obj"
   /\ NonEmptyStr(JsonOf(result.text).cm)
   /\ JsonOf(result.text).bn.k = "num")
    => /\ GitCmds = <<>>
       /\ exec_ret /= "raised"

(***************************************************************************)
(* C17 as stated: a failed diff query is the only failure the run goes on  *)
(* after: it leaves the empty diff and the prompt is built as when nothing *)
(* is staged; every other failed call, the status query among them, is the *)
(* last call of a run that ends there, the status staying None.            *)
(***************************************************************************)
C17_OnlyDiffRecovered ==
  /\ \A i \in DOMAIN trace :
       ~trace[i].ok =>
         IF trace[i].op = "diff"
         THEN /\ diff = Str("")
              /\ pc /= "exited" \/ At("build_prompt") /= {}
         ELSE Len(trace) = i /\ pc = "exited"
  /\ \A i \in At("build_prompt") :
       prompt = build_prompt(status, diff, args, config)
  /\ \A i \in At("status") : ~trace[i].ok => status = None

(***************************************************************************)
(* C17 as amended: a failed diff query and a failed token count are the    *)
(* only failures the run goes on after: the failed diff query leaves the   *)
(* empty diff and the prompt is built as when nothing is staged; every     *)
(* other failed call, the status query among them, is the last call of a   *)
(* run that ends there, the status staying None.                           *)
(***************************************************************************)
C17_DiffAndCountRecovered ==
  /\ \A i \in DOMAIN trace :
       ~trace[i].ok =>
         CASE trace[i].op = "diff" ->
                /\ diff = Str("")
                /\ pc /= "exited" \/ At("build_prompt") /= {}
           [] trace[i].op = "count_tokens" ->
                pc /= "exited" \/ Len(trace) > i
           [] OTHER -> Len(trace) = i /\ pc = "exited"
  /\ \A i \in At("build_prompt") :
       prompt = build_prompt(status, Str(""), args, config) <=> diff = Str("")
  /\ \A i \in At("status") : ~trace[i].ok => status = None

\* C17 witness: the diff query failed and the run went on to the generation
\* call
C17_Witness ==
  /\ \E d \in At("diff") : ~trace[d].ok
  /\ At("build_prompt") /= {}
  /\ At("generate") /= {}

(***************************************************************************)
(* C18: with auto-confirm no confirmation is ever read, and a finished run *)
(* whose status query and generation call succeeded and whose parse gave a *)
(* commit message (a string) has started git commit.                       *)
(***************************************************************************)
C18_AutoConfirm ==
  args.yes =>
    /\ At("input") = {}
    /\ pc \notin {"gate1", "gate2"}
    /\ (/\ \E p \in At("parse") : trace[p].ok
        /\ IsStr(commit_msg)
        /\ pc \notin {"commit"})
         => At("commit") /= {}

\* C18 witness: a run with auto-confirm went from a successful parse to the
\* commit and on to the end
C18_Witness ==
  /\ args.yes
  /\ \E p \in At("parse") : trace[p].ok
  /\ At("commit") /= {}
  /\ pc = "exited"

====
